---- MODULE Spec2Model ----
(***************************************************************************)
(* Model of the stereo sample pipeline of dataloader/dataloader.py:        *)
(* the synthetic descriptor EntityFlying3d and its get_item, the ETH3D     *)
(* descriptor, the dataset collections and the manifest loader             *)
(* StereoDataset.flow3d_driving_json.                                      *)
(*                                                                         *)
(* Rasters are modelled by their shape and by the geometric operations     *)
(* applied to them (column offset of a crop, amount subtracted from the    *)
(* values); pixel values themselves stay symbolic.  Python's optional      *)
(* values are tuples: <<>> is None, <<x>> is the value x.                  *)
(***************************************************************************)
EXTENDS Integers, Sequences, FiniteSets, TLC

VARIABLES
    fs,           \* set of the paths that exist on disk
    undecodable,  \* set of the .pfm paths the codec fails to decode
    raster_hw,    \* <<H, W>> of the rasters stored on disk
    manifests,    \* manifest file name -> its contents (a sequence of records)
    rnd,          \* state of Python's global `random` generator
    entity,       \* the descriptor under access (SpecItem), <<>> before construction
    out,          \* result of the last call
    input_list,   \* the dataset collection's descriptor list
    caller_list,  \* the list the caller handed to EntityDataSet
    ds_kind,      \* which collection class was constructed, "" before
    shuffles,     \* number of random.sample calls made by the constructor
    stdout,       \* what the loader printed
    occ_mask,     \* contents of the occlusion masks stored on disk
    scan          \* position of a loader's pass over a long manifest

vars == <<fs, undecodable, raster_hw, manifests, rnd, entity, out,
          input_list, caller_list, ds_kind, shuffles, stdout, occ_mask, scan>>

None == <<>>
Some(x) == <<x>>

\* a function over 1..n as a tuple (a Python list)
List(f) == f \o <<>>

\* the one element of a singleton: Only({e(x) : x \in {v}}) is e with x bound to v
Only(S) == CHOOSE x \in S : TRUE

(***************************************************************************)
(* Bounds of the model.                                                    *)
(***************************************************************************)
MaxPts == 2         \* rows of the sparse-point array that are tracked
MaxRecords == 2     \* records of a manifest

(***************************************************************************)
(* Paths.  A path is modelled by the substrings the code looks at: the     *)
(* record it belongs to, its modality directory, its stereo side, the      *)
(* index suffix of a rendering (-1: none) and its extension.               *)
(***************************************************************************)
Path(rec, pass, side, idx, ext) ==
    [rec |-> rec, pass |-> pass, side |-> side, idx |-> idx, ext |-> ext]

\* str.replace(old, new) on the modality directory
replace_pass(p, old, new) == IF p.pass = old THEN [p EXCEPT !.pass = new] ELSE p

\* str.replace("left", "right")
replace_side(p) == IF p.side = "left" THEN [p EXCEPT !.side = "right"] ELSE p

\* str.replace(".png", f"_{i}.png")
replace_png(p, i) == IF p.ext = "png" THEN [p EXCEPT !.idx = i] ELSE p

\* filename.endswith(".pfm")
endswith_pfm(p) == p.ext = "pfm"

\* "disp" in filename
has_disp(p) == p.pass = "disparity"

(***************************************************************************)
(* Python's global random generator, as a small full-period generator: a   *)
(* draw reads the state and advances it.                                   *)
(***************************************************************************)
RndStates == 0..8
rnd_next(r) == (r + 1) % Cardinality(RndStates)

RECURSIVE rnd_skip(_, _)
\* the generator after n draws
rnd_skip(r, n) == IF n = 0 THEN r ELSE rnd_skip(rnd_next(r), n - 1)

\* random.randint(a, b): a value in a..b, a for the first state of the
\* generator, b for the last, evenly spread between
randint(r, a, b) == a + ((r * (b - a)) \div (Cardinality(RndStates) - 1))

(***************************************************************************)
(* Rasters.                                                                *)
(***************************************************************************)
cut_resolution == <<540, 720>>

SAMPLE_COUNT == 5000

Raster(shape, path) ==
    [shape |-> shape, src |-> path, cat |-> <<>>, xoff |-> 0, yoff |-> 0,
     sub |-> 0, radius |-> 0, occ |-> "", fx |-> <<>>]

\* the decoded array of a stored file: a .pfm map and a NIR image are 2-d,
\* a color image is H x W x 3
decode(hw, p) ==
    IF endswith_pfm(p)
       \/ p.pass \in {"nir_rendered", "nir_ambient", "frame_shaded_nir", "mask0nocc"}
    THEN Raster(hw, p)
    ELSE Raster(hw \o <<3>>, p)

\* image_process.img_pad_np: pad/crop to the canonical resolution, the
\* raster itself when it already has it
img_pad_np(img, pad_constant) ==
    IF img.shape[1] = cut_resolution[1] /\ img.shape[2] = cut_resolution[2]
    THEN img
    ELSE [img EXCEPT
            !.shape = cut_resolution \o SubSeq(img.shape, 3, Len(img.shape)),
            !.fx = img.fx \o <<IF pad_constant THEN "pad_constant" ELSE "pad_edge">>]

\* __read_img without the padding
read_img_as_decoded(hw, filename) == decode(hw, filename)

\* EntityFlying3d.__read_img (the file is known to exist)
read_img(hw, filename) ==
    LET img == decode(hw, filename) IN
    IF img.shape[1] # cut_resolution[1] \/ img.shape[2] # cut_resolution[2]
    THEN img_pad_np(img, has_disp(filename))
    ELSE img

\* EntityFlying3d.__to_tensor on an array: channel-first
to_tensor(img) ==
    IF Len(img.shape) = 2
    THEN [img EXCEPT !.shape = <<1>> \o img.shape]
    ELSE [img EXCEPT !.shape = <<img.shape[3], img.shape[1], img.shape[2]>>]

\* image_process.guided_filter(guide, input, radius, eps): shaped like input
guided_filter(guide, img, radius) ==
    [img EXCEPT !.fx = img.fx \o <<"guided">>, !.radius = radius]

\* x.mean(axis=-1)
mean_last(img) == [img EXCEPT !.shape = SubSeq(img.shape, 1, Len(img.shape) - 1)]

\* x[..., np.newaxis]
newaxis(img) == [img EXCEPT !.shape = img.shape \o <<1>>]

\* image_process.apply_patch_gamma_correction_torch(x.unsqueeze(0))[0]
patch_gamma(t) == [t EXCEPT !.fx = t.fx \o <<"gamma">>]

\* images // 50
floordiv50(img) == [img EXCEPT !.fx = img.fx \o <<"div50">>]

(***************************************************************************)
(* EntityFlying3d.                                                         *)
(***************************************************************************)
\* random.randint(8, 16) of the constructor
draw_shift_distance(r) == randint(r, 8, 16)

\* EntityFlying3d.__init__; r is the generator's state at the call
EntityFlying3d(images, disparity, guided_noise, gamma_noise, shift_filter, vertical_scale, noise_target, disparity_right, rgb_gt, r) ==
    [kind |-> "flying3d",
     images |-> images,
     disparity |-> disparity,
     guided_noise |-> guided_noise,
     gamma_noise |-> gamma_noise,
     shift_filter |-> shift_filter,
     vertical_scale |-> vertical_scale,
     noise_target |-> noise_target,
     shift_distance |-> draw_shift_distance(r),
     disparity_right |-> disparity_right,
     rgb_gt |-> rgb_gt]

\* index of the first path of the list that cannot be read, 0 if none
FirstUnreadable(paths, disk, bad) ==
    LET S == {i \in 1..Len(paths) : paths[i] \notin disk \/ paths[i] \in bad} IN
    IF S = {} THEN 0 ELSE CHOOSE i \in S : \A j \in S : i <= j

\* the exception a read of path p raises
ReadError(p, disk) == IF p \notin disk THEN "FileNotFoundError" ELSE "DecodeError"

\* the paths opened when the list is read in order
Opened(paths, disk, bad) ==
    LET k == FirstUnreadable(paths, disk, bad) IN
    IF k = 0 THEN paths ELSE SubSeq(paths, 1, k)

\* a call that raised
Raised(self, err, reads, r) ==
    [err |-> err, batch |-> <<>>, reads |-> reads, rnd |-> r, self |-> self]

Min(a, b) == IF a <= b THEN a ELSE b

\* x.unsqueeze(0) and x[0]
unsqueeze0(t) == [t EXCEPT !.shape = <<1>> \o t.shape]
squeeze0(t) == [t EXCEPT !.shape = Tail(t.shape)]

\* torch.concat([a, b], dim): the sizes along dim add up
concat(a, b, dim) ==
    [a EXCEPT !.shape[dim] = a.shape[dim] + b.shape[dim], !.cat = a.cat \o <<b.src>>]

\* x[:, lo:hi] of a batched tensor: the channels lo..hi-1
slice_ch(t, lo, hi) ==
    [t EXCEPT !.shape[2] = Min(hi, t.shape[2]) - lo,
              !.src = IF lo = 0 THEN t.src ELSE t.cat[1],
              !.cat = <<>>]

\* x[..., lo:hi]: the columns lo..hi-1
crop_cols(t, lo, hi) ==
    [t EXCEPT !.shape[Len(t.shape)] = hi - lo, !.xoff = t.xoff + lo]

\* image_process.inputs_disparity_shift(images, disparities, d): the left
\* rasters (even Python index) start d columns further right, the right
\* rasters keep their first column, every disparity value loses d
inputs_disparity_shift(images, disps, d) ==
    LET w(t) == t.shape[Len(t.shape)]
        left(t) == crop_cols(t, d, w(t))
        right(t) == crop_cols(t, 0, w(t) - d)
    IN [images |-> List([i \in DOMAIN images |->
                       IF i % 2 = 1 THEN left(images[i]) ELSE right(images[i])]),
        disps |-> <<[left(disps[1]) EXCEPT !.sub = disps[1].sub + d],
                    [right(disps[2]) EXCEPT !.sub = disps[2].sub + d]>>]

\* image_process.crop_and_resize_height: a vertical band resized back to the
\* canonical height; `site` names the call, each call draws its own band
crop_and_resize_height(t, site) ==
    [t EXCEPT !.shape[2] = cut_resolution[1], !.fx = t.fx \o <<site>>]

\* get_item, lines 92-115: the guided noise on the four base rasters
gi_noise(self, raw, r) ==
    IF self.guided_noise = None THEN raw
    ELSE LET g == self.guided_noise[1] IN
         IF self.noise_target = "rgb"
         THEN LET a == guided_filter(raw[3], raw[1], g * 5 + 2)
                  b == guided_filter(raw[4], raw[2], g * 5 + 2)
                  low == randint(r, 1, 4) = 1
              IN [raw EXCEPT ![1] = IF low THEN floordiv50(a) ELSE a,
                             ![2] = IF low THEN floordiv50(b) ELSE b]
         ELSE [raw EXCEPT
                 ![3] = guided_filter(mean_last(raw[1]), newaxis(raw[3]), g + 3),
                 ![4] = guided_filter(mean_last(raw[2]), newaxis(raw[4]), g + 3)]

\* the generator after line 100's draw, made only on the rgb noise path
gi_noise_rnd(self, r) ==
    IF self.guided_noise # None /\ self.noise_target = "rgb" THEN rnd_next(r) ELSE r

\* get_item, lines 118-133: the patch gamma on the designated modality
gi_gamma(self, tens) ==
    IF self.gamma_noise = None THEN tens
    ELSE IF self.noise_target = "rgb"
         THEN [tens EXCEPT ![1] = patch_gamma(tens[1]), ![2] = patch_gamma(tens[2])]
         ELSE [tens EXCEPT ![3] = patch_gamma(tens[3]), ![4] = patch_gamma(tens[4])]

\* gi_shift with the disparity maps left out of the shift
gi_shift_images_only(self, images, disparity, disparity_right) ==
    IF ~self.shift_filter
    THEN [images |-> images, disparity |-> disparity,
          disparity_right |-> disparity_right]
    ELSE LET b == List([i \in DOMAIN images |-> unsqueeze0(images[i])])
             s == inputs_disparity_shift(
                      SubSeq(b, 1, 4),
                      <<unsqueeze0(disparity), unsqueeze0(disparity_right)>>,
                      self.shift_distance)
         IN [images |-> List([i \in DOMAIN s.images |-> squeeze0(s.images[i])])
                        \o SubSeq(images, 5, Len(images)),
             disparity |-> crop_cols(disparity, 0,
                                     cut_resolution[2] - self.shift_distance),
             disparity_right |-> disparity_right]

\* get_item, lines 145-163: the horizontal shift
gi_shift(self, images, disparity, disparity_right) ==
    IF ~self.shift_filter
    THEN [images |-> images, disparity |-> disparity,
          disparity_right |-> disparity_right]
    ELSE LET b == List([i \in DOMAIN images |-> unsqueeze0(images[i])])
             c == IF self.rgb_gt # None
                  THEN SubSeq([b EXCEPT ![1] = concat(b[1], b[5], 2),
                                        ![2] = concat(b[2], b[6], 2)], 1, 4)
                  ELSE b
             s == inputs_disparity_shift(
                      c, <<unsqueeze0(disparity), unsqueeze0(disparity_right)>>,
                      self.shift_distance)
             d == IF self.rgb_gt # None
                  THEN [s.images EXCEPT ![1] = slice_ch(s.images[1], 0, 3),
                                        ![2] = slice_ch(s.images[2], 0, 3)]
                       \o <<slice_ch(s.images[1], 3, 6), slice_ch(s.images[2], 3, 6)>>
                  ELSE s.images
         IN [images |-> List([i \in DOMAIN d |-> squeeze0(d[i])]),
             disparity |-> squeeze0(s.disps[1]),
             disparity_right |-> squeeze0(s.disps[2])]

\* get_item, lines 164-178: the vertical rescale
gi_vertical(self, g) ==
    IF ~self.vertical_scale THEN g
    ELSE [images |-> List([i \in DOMAIN g.images |->
                        crop_and_resize_height(g.images[i],
                            IF i <= 2 THEN "vscale_rgb"
                            ELSE IF i <= 4 THEN "vscale_nir" ELSE "vscale_gt")]),
          disparity |-> crop_and_resize_height(g.disparity, "vscale_disp"),
          disparity_right |->
              IF self.disparity_right
              THEN crop_and_resize_height(g.disparity_right, "vscale_disp_right")
              ELSE g.disparity_right]

(***************************************************************************)
(* Sparse point sampling.                                                  *)
(***************************************************************************)
\* the linear indices the model draws from: the first pixel, the end of the
\* first row, the start of the second row and the last pixel
IndexSamples(n, w) == {0, w - 1, w, n - 1} \cap (0..(n - 1))

InjectiveSeqs(m, S) ==
    {q \in [1..m -> S] : \A i, j \in 1..m : i # j => q[i] # q[j]}

\* torch.randperm(n)[:5000]: `count` pairwise distinct indices below n, of
\* which the first MaxPts are tracked
randperm_prefix(n, w) ==
    LET count == Min(SAMPLE_COUNT, n) IN
    {[count |-> count, idx |-> List(q)] :
        q \in InjectiveSeqs(Min(MaxPts, count), IndexSamples(n, w))}

\* decompose in column-major order
decompose_column_major(idx, w) == [u |-> idx \div w, v |-> idx % w]

\* u = indices % W, v = indices // W
decompose(idx, w) == [u |-> idx % w, v |-> idx \div w]

OCC_THRESHOLD == 200

\* the value the occlusion mask called m holds at row v, column u: "dark"
\* is 0 everywhere, "clear" 255 everywhere, "mixed" has 0 at the first
\* pixel, 199 on the rest of the first row, 200 on the second row and 255
\* below
mask_value(m, v, u) ==
    CASE m = "dark" -> 0
      [] m = "clear" -> 255
      [] OTHER -> IF v = 0 /\ u = 0 THEN 0
                  ELSE IF v = 0 THEN 199
                  ELSE IF v = 1 THEN 200
                  ELSE 255

\* occ_mask < 200 with the bound included
occluded_at_or_below(m, v, u) == mask_value(m, v, u) <= OCC_THRESHOLD

\* occ_mask < 200, at one pixel
occluded_at(m, v, u) == mask_value(m, v, u) < OCC_THRESHOLD

\* the value of raster t at row v, column u, in terms of its source; inf
\* tells whether the value was overwritten with infinity
pixel_at(t, v, u) ==
    [src |-> t.src, row |-> v + t.yoff, col |-> u + t.xoff, sub |-> t.sub,
     fx |-> t.fx,
     inf |-> t.occ # "" /\ occluded_at(t.occ, v + t.yoff, u + t.xoff)]

\* disparity[:, v, u] raises IndexError when a sampled coordinate lies outside
\* the raster: a tracked one, or (stray) one of the untracked rows
gather_fails(t, perm, uv, stray) ==
    LET h == t.shape[Len(t.shape) - 1]
        w == t.shape[Len(t.shape)]
    IN \/ \E i \in DOMAIN uv : uv[i].u >= w \/ uv[i].v >= h
       \/ /\ stray
          /\ perm.count > Len(perm.idx)
          /\ (w < cut_resolution[2] \/ h < cut_resolution[1])

\* torch.stack((u, v, disparity_sampled[0]), dim=0).T
stack_points(t, perm, uv) ==
    LET stacked == <<3, perm.count>> IN
    [shape |-> <<stacked[2], stacked[1]>>,
     rows |-> List([i \in DOMAIN uv |->
                 [u |-> uv[i].u, v |-> uv[i].v, d |-> pixel_at(t, uv[i].v, uv[i].u)]])]

\* gi_gather with the shift distance drawn again at every access
gi_gather_redraw(self, g, reads, r, perm, uv, stray) ==
    LET again == [self EXCEPT !.shift_distance = draw_shift_distance(r)] IN
    IF gather_fails(g.disparity, perm, uv, stray)
    THEN Raised(again, "IndexError", reads, r)
    ELSE [err |-> "",
          batch |-> g.images
                    \o <<stack_points(g.disparity, perm, uv),
                         IF self.disparity_right
                         THEN concat(g.disparity, g.disparity_right, 1)
                         ELSE g.disparity>>,
          reads |-> reads, rnd |-> r, self |-> again]

\* get_item, lines 179-189: g holds the rasters after shift and rescale
gi_gather(self, g, reads, r, perm, uv, stray) ==
    IF gather_fails(g.disparity, perm, uv, stray)
    THEN Raised(self, "IndexError", reads, r)
    ELSE [err |-> "",
          batch |-> g.images
                    \o <<stack_points(g.disparity, perm, uv),
                         IF self.disparity_right
                         THEN concat(g.disparity, g.disparity_right, 1)
                         ELSE g.disparity>>,
          reads |-> reads, rnd |-> r, self |-> self]

\* gi_tail with the sparse points gathered before the vertical rescale
gi_tail_gather_before_rescale(self, images, disparity, disparity_right, reads, r, perm, uv, stray) ==
    LET s == gi_shift(self, images, disparity, disparity_right)
        res == gi_gather(self, gi_vertical(self, s), reads, r, perm, uv, stray)
    IN IF res.err # "" THEN res
       ELSE [res EXCEPT !.batch[Len(res.batch) - 1] =
                            stack_points(s.disparity, perm, uv)]

\* get_item, lines 145-189, once every raster is loaded
gi_tail(self, images, disparity, disparity_right, reads, r, perm, uv, stray) ==
    gi_gather(self,
              gi_vertical(self, gi_shift(self, images, disparity, disparity_right)),
              reads, r, perm, uv, stray)

\* EntityFlying3d.get_item: disk, bad and hw describe the files, r is the
\* generator's state, perm the outcome of torch.randperm
get_item(self, disk, bad, hw, r, perm, stray) ==
    LET k1 == FirstUnreadable(self.images, disk, bad)
        r1 == gi_noise_rnd(self, r)
        uv == List([i \in DOMAIN perm.idx |->
                      decompose(perm.idx[i], cut_resolution[2])])
        unreadable(p) == p \notin disk \/ p \in bad
    IN
    IF k1 # 0
    THEN Raised(self, ReadError(self.images[k1], disk),
                Opened(self.images, disk, bad), r)
    ELSE
    LET raw == List([i \in DOMAIN self.images |-> read_img(hw, self.images[i])])
        noised == gi_noise(self, raw, r)
        tens == gi_gamma(self, List([i \in DOMAIN noised |-> to_tensor(noised[i])]))
        reads1 == self.images
    IN
    IF Len(self.disparity) < 1 THEN Raised(self, "IndexError", reads1, r1)
    ELSE IF unreadable(self.disparity[1])
    THEN Raised(self, ReadError(self.disparity[1], disk),
                reads1 \o <<self.disparity[1]>>, r1)
    ELSE IF Len(self.disparity) < 2
    THEN Raised(self, "IndexError", reads1 \o <<self.disparity[1]>>, r1)
    ELSE IF unreadable(self.disparity[2])
    THEN Raised(self, ReadError(self.disparity[2], disk),
                reads1 \o SubSeq(self.disparity, 1, 2), r1)
    ELSE
    LET reads2 == reads1 \o SubSeq(self.disparity, 1, 2)
        disparity == to_tensor(read_img(hw, self.disparity[1]))
        disparity_right == to_tensor(read_img(hw, self.disparity[2]))
        kg == FirstUnreadable(self.rgb_gt, disk, bad)
    IN
    IF kg # 0
    THEN Raised(self, ReadError(self.rgb_gt[kg], disk),
                reads2 \o Opened(self.rgb_gt, disk, bad), r1)
    ELSE gi_tail(self,
                 tens \o List([i \in DOMAIN self.rgb_gt |->
                                 to_tensor(read_img(hw, self.rgb_gt[i]))]),
                 disparity, disparity_right, reads2 \o self.rgb_gt,
                 r1, perm, uv, stray)

(***************************************************************************)
(* Ethe3dEntity.                                                           *)
(***************************************************************************)
Ethe3dEntity(path) == [kind |-> "eth3d", path |-> path]

\* os.path.join(self.path, name) for the four files of an ETH3D frame
eth_join(frame, name) ==
    Path(frame, name, IF name = "im1" THEN "right" ELSE "left", -1,
         IF name = "disp0GT" THEN "pfm" ELSE "png")

\* image_process.pseudo_nir_np: one channel computed from the color raster
pseudo_nir_np(img) == [mean_last(img) EXCEPT !.fx = img.fx \o <<"pseudo_nir">>]

\* H, W = img_left.shape[:2]; H = min(H, 540); W = min(W, 720)
eth_frame(hw) == <<Min(hw[1], 540), Min(hw[2], 720)>>

\* Ethe3dEntity.get_item
eth_get_item(self, disk, bad, hw, m, r, perm) ==
    LET im0 == eth_join(self.path, "im0")
        im1 == eth_join(self.path, "im1")
        mask == eth_join(self.path, "mask0nocc")
        disp == eth_join(self.path, "disp0GT")
        HW == eth_frame(hw)
        uv == List([i \in DOMAIN perm.idx |-> decompose(perm.idx[i], HW[2])])
    IN
    IF im0 \notin disk \/ im1 \notin disk
    THEN Raised(self, "AttributeError", <<im0, im1>>, r)
    ELSE IF disp \notin disk \/ disp \in bad
    THEN Raised(self, ReadError(disp, disk), <<im0, im1, mask, disp>>, r)
    ELSE IF mask \notin disk
    THEN Raised(self, "AttributeError", <<im0, im1, mask, disp>>, r)
    ELSE
    LET left == decode(hw, im0)
        right == decode(hw, im1)
        images == <<img_pad_np(left, FALSE), img_pad_np(right, FALSE),
                    img_pad_np(pseudo_nir_np(left), FALSE),
                    img_pad_np(pseudo_nir_np(right), FALSE)>>
        padded == img_pad_np(decode(hw, disp), FALSE)
        occluded == [padded EXCEPT !.occ = m]
    IN
    IF gather_fails(occluded, perm, uv, FALSE)
    THEN Raised(self, "IndexError", <<im0, im1, mask, disp>>, r)
    ELSE [err |-> "",
          batch |-> List([i \in 1..4 |-> to_tensor(images[i])])
                    \o <<stack_points(occluded, perm, uv), unsqueeze0(occluded)>>,
          reads |-> <<im0, im1, mask, disp>>, rnd |-> r, self |-> self]

(***************************************************************************)
(* EntityMiddlebury.get_item.                                              *)
(***************************************************************************)
CROP_X_MAX == 800
CROP_Y_MAX == 200
BRANCH_MAX == 100
GAMMA_RGB_ABOVE == 70
DARKEN_ABOVE == 20
DARKEN_MIN == 64
DARKEN_MAX == 224

\* the number of rows or columns a slice [lo : lo + n] keeps of `size`
slice_len(size, lo, n) == IF size - lo <= 0 THEN 0 ELSE Min(n, size - lo)

\* img[y : y + 540, x : x + 720]
crop_window(img, y, x) ==
    [img EXCEPT
       !.shape = <<slice_len(img.shape[1], y, cut_resolution[1]),
                   slice_len(img.shape[2], x, cut_resolution[2])>>
                 \o SubSeq(img.shape, 3, Len(img.shape)),
       !.yoff = img.yoff + y,
       !.xoff = img.xoff + x]

\* tensor.permute(2, 0, 1)
permute201(img) ==
    [img EXCEPT !.shape = <<img.shape[3], img.shape[1], img.shape[2]>>]

\* torch.clip(t - offset, 0, 255)
darken(t, offset) ==
    [t EXCEPT !.sub = t.sub + offset, !.fx = t.fx \o <<"clip">>]

\* disparity_left[np.isinf(..)] = 100000; disparity_left[np.isnan(..)] = 100000
sanitize(img) == [img EXCEPT !.fx = img.fx \o <<"finite">>]

\* the branch the access takes for the drawn nsmt
mb_branch(nsmt) ==
    IF nsmt > GAMMA_RGB_ABOVE THEN "gamma_rgb"
    ELSE IF nsmt > DARKEN_ABOVE THEN "darken"
    ELSE "gamma_nir"

\* mb_augment that gamma-corrects the derived NIR pair in every branch
mb_augment_nir_always(rgb, nir, nsmt, r) ==
    CASE mb_branch(nsmt) = "gamma_rgb" ->
           [rgb |-> <<patch_gamma(rgb[1]), patch_gamma(rgb[2])>>,
            nir |-> <<patch_gamma(nir[1]), patch_gamma(nir[2])>>, rnd |-> r]
      [] mb_branch(nsmt) = "darken" ->
           [rgb |-> <<darken(rgb[1], randint(r, DARKEN_MIN, DARKEN_MAX)),
                      darken(rgb[2], randint(rnd_next(r), DARKEN_MIN, DARKEN_MAX))>>,
            nir |-> <<patch_gamma(nir[1]), patch_gamma(nir[2])>>,
            rnd |-> rnd_skip(r, 2)]
      [] OTHER ->
           [rgb |-> rgb,
            nir |-> <<patch_gamma(nir[1]), patch_gamma(nir[2])>>, rnd |-> r]

\* lines 231-240: the augmentation of the color pair or of the NIR pair; r
\* is the generator's state after nsmt was drawn
mb_augment(rgb, nir, nsmt, r) ==
    CASE mb_branch(nsmt) = "gamma_rgb" ->
           [rgb |-> <<patch_gamma(rgb[1]), patch_gamma(rgb[2])>>,
            nir |-> nir, rnd |-> r]
      [] mb_branch(nsmt) = "darken" ->
           [rgb |-> <<darken(rgb[1], randint(r, DARKEN_MIN, DARKEN_MAX)),
                      darken(rgb[2], randint(rnd_next(r), DARKEN_MIN, DARKEN_MAX))>>,
            nir |-> nir, rnd |-> rnd_skip(r, 2)]
      [] OTHER ->
           [rgb |-> rgb,
            nir |-> <<patch_gamma(nir[1]), patch_gamma(nir[2])>>, rnd |-> r]

\* EntityMiddlebury.get_item: cv2.imread gives None for a file it cannot
\* read, and slicing None raises TypeError; padding an empty window fails
mb_get_item(self, disk, bad, hw, r) ==
    LET x == randint(r, 0, CROP_X_MAX)
        y == randint(rnd_next(r), 0, CROP_Y_MAX)
        r2 == rnd_skip(r, 2)
        left == crop_window(decode(hw, self.left), y, x)
        right == crop_window(decode(hw, self.right), y, x)
    IN
    IF self.left \notin disk THEN Raised(self, "TypeError", <<self.left>>, r2)
    ELSE IF self.right \notin disk
    THEN Raised(self, "TypeError", <<self.left, self.right>>, r2)
    ELSE IF left.shape[1] = 0 \/ left.shape[2] = 0
    THEN Raised(self, "ValueError", <<self.left, self.right>>, r2)
    ELSE IF self.disparity \notin disk \/ self.disparity \in bad
    THEN Raised(self, ReadError(self.disparity, disk),
                <<self.left, self.right, self.disparity>>, r2)
    ELSE
    LET rgb == <<permute201(img_pad_np(left, FALSE)),
                 permute201(img_pad_np(right, FALSE))>>
        nir == <<unsqueeze0(img_pad_np(pseudo_nir_np(left), FALSE)),
                 unsqueeze0(img_pad_np(pseudo_nir_np(right), FALSE))>>
        disparity_left ==
            unsqueeze0(img_pad_np(
                sanitize(crop_window(decode(hw, self.disparity), y, x)), TRUE))
        nsmt == randint(r2, 1, BRANCH_MAX)
    IN Only({[err |-> "",
              batch |-> aug.rgb \o aug.nir \o rgb
                        \o <<disparity_left, disparity_left>>,
              reads |-> <<self.left, self.right, self.disparity>>,
              rnd |-> aug.rnd, self |-> self]
             : aug \in {mb_augment(rgb, nir, nsmt, rnd_next(r2))}})

(***************************************************************************)
(* The manifest loader, StereoDataset.flow3d_driving_json.                 *)
(*                                                                         *)
(* A manifest record (a JSON object) is modelled with the keys the code    *)
(* reads: rgb and disparity (JSON arrays, Python lists), nir (absent, a    *)
(* list when the manifest gives it, a tuple once the loader derived it)    *)
(* and marker (whether the key frame_burnt_filtered is present).           *)
(***************************************************************************)
DRIVING_JSON == "flyingthings3d.json"
FLYING_JSON == "Flow3dFlyingThings3d.json"

FAST_TEST_CAP == 100000
ENTRY_CAP == 20000
INDEX_CAP == 1500
RENDER_PROBES == 10
NOISED_ROUNDS == 5

Entry(rgb, disparity, nir, marker) ==
    [rgb |-> rgb, disparity |-> disparity, nir |-> nir, marker |-> marker]
NirAbsent == [type |-> "absent", v |-> <<>>]
NirList(v) == [type |-> "list", v |-> v]
NirTuple(v) == [type |-> "tuple", v |-> v]

\* StereoDatasetArgs.__init__
StereoDatasetArgs(flow3d_driving_json, flying3d_json, fast_test, synth_no_filter, synth_no_rgb, validate_json, noised_input, shift_filter, vertical_scale, rgb_rendered, disparity_right, rgb_gt, use_rendered_nir) ==
    [flow3d_driving_json |-> flow3d_driving_json, flying3d_json |-> flying3d_json,
     fast_test |-> fast_test, synth_no_filter |-> synth_no_filter,
     synth_no_rgb |-> synth_no_rgb, validate_json |-> validate_json,
     noised_input |-> noised_input, shift_filter |-> shift_filter,
     vertical_scale |-> vertical_scale, rgb_rendered |-> rgb_rendered,
     disparity_right |-> disparity_right, rgb_gt |-> rgb_gt,
     use_rendered_nir |-> use_rendered_nir]

\* int((random.random() * 100) % 20), random.random() being r / 9
draw_guided_level(r) == (((100 * r) % 180) \div 9)

\* random.random() * 2, as a fraction
draw_gamma_level(r) == [num |-> 2 * r, den |-> 9]

\* lines 407-415: the NIR pair of a record, given or derived
entry_nir(entry) ==
    IF entry.nir.type # "absent" THEN entry.nir
    ELSE NirTuple(<<replace_pass(entry.rgb[1], "frames_cleanpass", "nir_rendered"),
                    replace_pass(entry.rgb[2], "frames_cleanpass", "nir_rendered")>>)

\* [x.replace("nir_rendered", "nir_ambient") for x in nir]
nir_ambient_of(nir) ==
    <<replace_pass(nir[1], "nir_rendered", "nir_ambient"),
      replace_pass(nir[2], "nir_rendered", "nir_ambient")>>

\* the i-th rendering of the record's left color image in directory pass
render_path(entry, pass, i) ==
    replace_png(replace_pass(entry.rgb[1], "frames_cleanpass", pass), i)

\* probe_render going up from index 0 instead of down from index 9
probe_render_lowest(entry, pass, disk) ==
    LET S == {i \in 0..(RENDER_PROBES - 1) :
                /\ render_path(entry, pass, i) \in disk
                /\ replace_side(render_path(entry, pass, i)) \in disk}
    IN IF S = {} THEN -1 ELSE CHOOSE i \in S : \A j \in S : i <= j

\* lines 429-439 and 441-451: the highest index in 9..0 at which both sides
\* of a rendering exist, -1 if none does
probe_render(entry, pass, disk) ==
    LET S == {i \in 0..(RENDER_PROBES - 1) :
                /\ render_path(entry, pass, i) \in disk
                /\ replace_side(render_path(entry, pass, i)) \in disk}
    IN IF S = {} THEN -1 ELSE CHOOSE i \in S : \A j \in S : j <= i

\* lines 416-425: the base descriptor
expand_base(args, entry, nir, r) ==
    IF args.synth_no_rgb THEN [descs |-> <<>>, rnd |-> r]
    ELSE [descs |-> <<EntityFlying3d(entry.rgb \o nir_ambient_of(nir.v),
                                     entry.disparity, None, None,
                                     args.shift_filter, FALSE, "rgb",
                                     args.disparity_right,
                                     IF args.rgb_gt THEN entry.rgb ELSE None, r)>>,
          rnd |-> rnd_next(r)]

\* lines 426-505: one descriptor per rendering below the found index
expand_rendered(args, entry, nir, disk, r) ==
    IF ~args.rgb_rendered THEN [descs |-> <<>>, rnd |-> r]
    ELSE
    LET ir_gb == probe_render(entry, "frame_shaded", disk)
        ir_nir == IF args.use_rendered_nir
                  THEN probe_render(entry, "frame_shaded_nir", disk) ELSE -1
        n_gb == IF ir_gb > 0 THEN ir_gb ELSE 0
        n_nir == IF ir_nir > 0 THEN ir_nir ELSE 0
        per == IF args.use_rendered_nir THEN n_nir ELSE 1
        count == n_gb * per
        draws == IF args.noised_input THEN 2 ELSE 1
        make(k) ==
            LET ir == (k - 1) \div per
                inr == (k - 1) % per
                r0 == rnd_skip(r, (k - 1) * draws)
                render == render_path(entry, "frame_shaded", ir)
                render_nir == render_path(entry, "frame_shaded_nir", inr)
            IN EntityFlying3d(
                   IF args.use_rendered_nir
                   THEN <<render, replace_side(render),
                          render_nir, replace_side(render_nir)>>
                   ELSE <<render, replace_side(render), nir.v[1], nir.v[2]>>,
                   entry.disparity,
                   IF args.noised_input THEN Some(randint(r0, 3, 8)) ELSE None,
                   None, args.shift_filter, args.vertical_scale, "rgb",
                   args.disparity_right,
                   IF args.rgb_gt THEN entry.rgb ELSE None,
                   IF args.noised_input THEN rnd_next(r0) ELSE r0)
    IN [descs |-> List([k \in 1..count |-> make(k)]),
        rnd |-> rnd_skip(r, count * draws)]

\* lines 507-522: the noised duplicates, one per round and target name
expand_noised(args, entry, nir, r) ==
    IF ~args.noised_input THEN [descs |-> <<>>, rnd |-> r]
    ELSE
    LET count == NOISED_ROUNDS * 2
        make(k) ==
            LET r0 == rnd_skip(r, (k - 1) * 3) IN
            EntityFlying3d(entry.rgb \o nir_ambient_of(nir.v), entry.disparity,
                           Some(draw_guided_level(r0)),
                           Some(draw_gamma_level(rnd_next(r0))),
                           args.shift_filter, args.vertical_scale, "rgb",
                           args.disparity_right,
                           IF args.rgb_gt THEN entry.rgb ELSE None,
                           rnd_skip(r0, 2))
    IN [descs |-> List([k \in 1..count |-> make(k)]),
        rnd |-> rnd_skip(r, count * 3)]

\* lines 525-533: the existence checks made on the values of the record;
\* only a str or a tuple value is looked at, a list is not
entry_paths_exist(entry, disk) ==
    entry.nir.type = "tuple" => (entry.nir.v[1] \in disk /\ entry.nir.v[2] \in disk)

\* lines 534-537: pfmread.readPFM(entry["disparity"][0]) does not raise
entry_disparity_decodes(entry, disk, bad) ==
    /\ Len(entry.disparity) >= 1
    /\ entry.disparity[1] \in disk
    /\ entry.disparity[1] \notin bad

\* lines 523-540: the record as validated
entry_validated(entry, disk, bad) ==
    entry_paths_exist(entry, disk) /\ entry_disparity_decodes(entry, disk, bad)

\* json.dump then json.load of a record: a tuple is written as an array
json_entry(entry) ==
    IF entry.nir.type = "tuple" THEN [entry EXCEPT !.nir = NirList(entry.nir.v)]
    ELSE entry

\* lines 407-540: the loop body for one record that is neither skipped
\* nor past the cap
load_entry(args, entry0, disk, bad, validate, st) ==
    Only({Only({Only({Only({
        [idx |-> st.idx + 1,
         entries |-> st.entries \o a.descs \o b.descs \o c.descs,
         validate_entries |->
             IF validate /\ entry_validated(entry, disk, bad)
             THEN Append(st.validate_entries, entry) ELSE st.validate_entries,
         error_cnt |-> st.error_cnt,
         rnd |-> c.rnd]
        : c \in {expand_noised(args, entry, entry.nir, b.rnd)}})
        : b \in {expand_rendered(args, entry, entry.nir, disk, a.rnd)}})
        : a \in {expand_base(args, entry, entry.nir, st.rnd)}})
        : entry \in {[entry0 EXCEPT !.nir = entry_nir(entry0)]}})

\* lines 400-404: the test that ends the loop, for n_entries descriptors
\* accumulated at the record of index idx
cap_reached(args, n_entries, idx) ==
    \/ (args.fast_test /\ n_entries > FAST_TEST_CAP)
    \/ (n_entries > ENTRY_CAP /\ idx > INDEX_CAP)

RECURSIVE load_loop(_, _, _, _, _, _)
\* lines 396-540: the loop over the manifest's records
load_loop(args, entries, disk, bad, validate, st) ==
    IF st.idx >= Len(entries) THEN st
    ELSE LET entry == entries[st.idx + 1] IN
         IF args.synth_no_filter /\ entry.marker
         THEN load_loop(args, entries, disk, bad, validate,
                        [st EXCEPT !.idx = st.idx + 1])
         ELSE IF cap_reached(args, Len(st.entries), st.idx)
         THEN st
         ELSE Only({load_loop(args, entries, disk, bad, validate, s)
                    : s \in {load_entry(args, entry, disk, bad, validate, st)}})

\* manifest_written without the rewrite of the file
manifest_left_alone(file_entries, validate_entries, validate) == file_entries

\* lines 542-545: what validation leaves in the manifest file
manifest_written(file_entries, validate_entries, validate) ==
    IF validate THEN List([i \in DOMAIN validate_entries |->
                              json_entry(validate_entries[i])])
    ELSE file_entries

\* flow3d_driving_json(filename, validate): the descriptors returned, the
\* manifest file afterwards, the line printed and the generator afterwards
flow3d_driving_json(args, file_entries, disk, bad, validate, r) ==
    Only({[returned |-> st.entries,
           file |-> manifest_written(file_entries, st.validate_entries, validate),
           printed |-> IF validate
                       THEN <<[text |-> "Error Cnt ", n |-> st.error_cnt]>>
                       ELSE <<>>,
           rnd |-> st.rnd]
          : st \in {load_loop(args, file_entries, disk, bad, validate,
                              [idx |-> 0, entries |-> <<>>,
                               validate_entries |-> <<>>,
                               error_cnt |-> 0, rnd |-> r])}})

\* the result of a manifest that is not loaded
NotLoaded(file_entries, r) ==
    [returned |-> <<>>, file |-> file_entries, printed |-> <<>>, rnd |-> r]

\* StereoDataset.__init__ (copy_of_self false): the descriptors of the driving
\* manifest, then those of the flying manifest, in the order of expansion
StereoDataset(args, files, disk, bad, r) ==
    Only({Only({
        [input_list |-> d.returned \o f.returned,
         returned |-> <<d.returned, f.returned>>,
         files |-> (DRIVING_JSON :> d.file @@ FLYING_JSON :> f.file),
         printed |-> d.printed \o f.printed,
         shuffles |-> 0,
         rnd |-> f.rnd]
        : f \in {IF args.flying3d_json
                 THEN flow3d_driving_json(args, files[FLYING_JSON], disk, bad,
                                          args.validate_json, d.rnd)
                 ELSE NotLoaded(files[FLYING_JSON], d.rnd)}})
        : d \in {IF args.flow3d_driving_json
                 THEN flow3d_driving_json(args, files[DRIVING_JSON], disk, bad,
                                          args.validate_json, r)
                 ELSE NotLoaded(files[DRIVING_JSON], r)}})

(***************************************************************************)
(* Access to one descriptor (SpecItem).                                    *)
(***************************************************************************)
\* the files of manifest record k
RecRgb(k) == <<Path(k, "frames_cleanpass", "left", -1, "png"),
               Path(k, "frames_cleanpass", "right", -1, "png")>>
RecNir(k) == <<Path(k, "nir_rendered", "left", -1, "png"),
               Path(k, "nir_rendered", "right", -1, "png")>>
RecAmbient(k) == <<Path(k, "nir_ambient", "left", -1, "png"),
                   Path(k, "nir_ambient", "right", -1, "png")>>
RecDisparity(k) == <<Path(k, "disparity", "left", -1, "pfm"),
                     Path(k, "disparity", "right", -1, "pfm")>>
EthFiles(k) == {eth_join(k, n) : n \in {"im0", "im1", "mask0nocc", "disp0GT"}}

Range(q) == {q[i] : i \in DOMAIN q}

ItemDisk == Range(RecRgb(1)) \cup Range(RecAmbient(1)) \cup Range(RecDisparity(1))
            \cup EthFiles(1)

\* the disks a descriptor is accessed on: canonical rasters, small rasters,
\* large rasters, and a disk with files missing
ItemScenarios ==
    {[fs |-> ItemDisk, hw |-> cut_resolution, mask |-> "mixed"],
     [fs |-> ItemDisk, hw |-> <<2, 3>>, mask |-> "mixed"],
     [fs |-> ItemDisk, hw |-> <<600, 800>>, mask |-> "clear"],
     [fs |-> ItemDisk \ {RecAmbient(1)[1], eth_join(1, "mask0nocc")},
      hw |-> cut_resolution, mask |-> "dark"]}

\* the noise plans a descriptor is built with
NoisePlans ==
    {[guided |-> None, gamma |-> None, target |-> "rgb"],
     [guided |-> Some(3), gamma |-> None, target |-> "rgb"],
     [guided |-> Some(4), gamma |-> Some(1), target |-> "nir"]}

\* no pass over a long manifest is under way
NoScan == <<>>

NoCall == [op |-> "", err |-> "", batch |-> <<>>, reads |-> <<>>]

InitItem ==
    /\ \E sc \in ItemScenarios :
          fs = sc.fs /\ raster_hw = sc.hw /\ occ_mask = sc.mask
    /\ scan = NoScan
    /\ undecodable = {}
    /\ manifests = <<>>
    /\ rnd \in RndStates
    /\ (fs # ItemDisk \/ raster_hw # cut_resolution) => rnd = 0
    /\ entity = <<>>
    /\ out = NoCall
    /\ input_list = <<>>
    /\ caller_list = <<>>
    /\ ds_kind = ""
    /\ shuffles = 0
    /\ stdout = <<>>

\* the manifest loader's way of building a descriptor: four modality paths,
\* the record's disparity paths, optionally the color pair as ground truth
NewEntityFlying3d ==
    /\ entity = <<>>
    /\ \E ndisp \in 1..2, plan \in NoisePlans,
          shift_filter \in BOOLEAN, vertical_scale \in BOOLEAN,
          disparity_right \in BOOLEAN, gt \in BOOLEAN :
          entity' = <<EntityFlying3d(RecRgb(1) \o RecAmbient(1),
                                     SubSeq(RecDisparity(1), 1, ndisp),
                                     plan.guided, plan.gamma, shift_filter,
                                     vertical_scale, plan.target, disparity_right,
                                     IF gt THEN RecRgb(1) ELSE None, rnd)>>
    /\ rnd' = rnd_next(rnd)
    /\ UNCHANGED <<occ_mask, scan, fs, undecodable, raster_hw, manifests, out, input_list,
                   caller_list, ds_kind, shuffles, stdout>>

NewEthe3dEntity ==
    /\ entity = <<>>
    /\ entity' = <<Ethe3dEntity(1)>>
    /\ UNCHANGED <<occ_mask, scan, fs, undecodable, raster_hw, manifests, rnd, out, input_list,
                   caller_list, ds_kind, shuffles, stdout>>

\* the frame the sparse points of descriptor e are drawn over
sample_frame(e, hw) == IF e.kind = "eth3d" THEN eth_frame(hw) ELSE cut_resolution

\* Entity.get_item, dispatched on the descriptor's class
produce(e, disk, bad, hw, m, r, perm, stray) ==
    IF e.kind = "eth3d" THEN eth_get_item(e, disk, bad, hw, m, r, perm)
    ELSE IF e.kind = "middlebury" THEN mb_get_item(e, disk, bad, hw, r)
    ELSE get_item(e, disk, bad, hw, r, perm, stray)

GetItem ==
    /\ entity # <<>>
    /\ LET F == sample_frame(entity[1], raster_hw) IN
       \E perm \in randperm_prefix(F[1] * F[2], F[2]),
          stray \in IF entity[1].kind = "flying3d" /\ entity[1].shift_filter
                    THEN BOOLEAN ELSE {FALSE} :
          \E res \in {produce(entity[1], fs, undecodable, raster_hw, occ_mask, rnd, perm, stray)} :
          /\ out' = [op |-> "get_item", err |-> res.err, batch |-> res.batch,
                     reads |-> res.reads]
          /\ rnd' = res.rnd
          /\ entity' = <<res.self>>
    /\ UNCHANGED <<occ_mask, scan, fs, undecodable, raster_hw, manifests, input_list,
                   caller_list, ds_kind, shuffles, stdout>>

NextItem == NewEntityFlying3d \/ NewEthe3dEntity \/ GetItem

SpecItem == InitItem /\ [][NextItem]_vars

(***************************************************************************)
(* Properties of the access to one descriptor.                             *)
(***************************************************************************)
Accessed == out.op = "get_item"
IsFlying == entity # <<>> /\ entity[1].kind = "flying3d"
IsEth == entity # <<>> /\ entity[1].kind = "eth3d"

\* the rasters of a returned batch: all its elements but the sparse points,
\* which stand second to last
BatchRasters(b) == {b[i] : i \in DOMAIN b \ {Len(b) - 1}}
BatchPoints(b) == b[Len(b) - 1]
BatchDisparity(b) == b[Len(b)]
Height(t) == t.shape[Len(t.shape) - 1]
Width(t) == t.shape[Len(t.shape)]

\* C1: get_item on a descriptor built from two color paths and exactly one
\* disparity path, with disparity_right, shift_filter and vertical_scale
\* false and no ground-truth color, all files present, completes without
\* error and returns 6 elements: four rasters, a 5000 x 3 point array and a
\* 1 x 540 x 720 disparity raster, and opens no second disparity path.
C1_EndToEndSixElements ==
    (/\ Accessed /\ IsFlying /\ fs = ItemDisk
     /\ Len(entity[1].disparity) = 1
     /\ ~entity[1].disparity_right /\ ~entity[1].shift_filter
     /\ ~entity[1].vertical_scale /\ entity[1].rgb_gt = None)
    => /\ out.err = ""
       /\ Len(out.batch) = 6
       /\ \A i \in 1..4 : /\ Height(out.batch[i]) = 540
                           /\ Width(out.batch[i]) = 720
       /\ BatchPoints(out.batch).shape = <<5000, 3>>
       /\ BatchDisparity(out.batch).shape = <<1, 540, 720>>
       /\ RecDisparity(1)[2] \notin Range(out.reads)

\* columns and disparity values the shift invariant is evaluated on
ShiftCols == {0, 1, 100, 703}
ShiftDisps == {0, 1, 8, 16, 50}

\* C5: after the horizontal shift by the descriptor's distance d in 8..16,
\* the returned disparity is the original minus d on the pixels of the
\* cropped left raster, and a left pixel at column c with shifted disparity
\* s still matches the right raster's pixel at column c - s.
C5_ShiftKeepsCorrespondence ==
    (Accessed /\ IsFlying /\ out.err = "" /\ entity[1].shift_filter)
    => LET d == entity[1].shift_distance
           L == out.batch[1]
           R == out.batch[2]
           D == BatchDisparity(out.batch)
       IN /\ d \in 8..16
          /\ D.sub = d
          /\ D.xoff = L.xoff
          /\ \A c \in ShiftCols, orig \in ShiftDisps :
                LET shifted == orig - D.sub
                    src_right == (c + L.xoff) - orig
                IN src_right - R.xoff = c - shifted

C5_Witness ==
    /\ Accessed /\ IsFlying /\ out.err = "" /\ entity[1].shift_filter
    /\ entity[1].shift_distance = 16
    /\ BatchDisparity(out.batch).sub = 16

\* C6: every raster get_item returns for a synthetic descriptor (two
\* disparity paths, all files present) is 540 x 720, with shift_filter
\* and vertical_scale included, and the call does not fail.
C6_CanonicalAfterShift ==
    (Accessed /\ IsFlying /\ fs = ItemDisk /\ Len(entity[1].disparity) = 2)
    => /\ out.err = ""
       /\ \A t \in BatchRasters(out.batch) : Height(t) = 540 /\ Width(t) = 720

\* C7: the sampled (u, v) pairs of one call are pairwise distinct and inside
\* the frame, K = min(5000, H * W) of them, over 540 x 720 for the synthetic
\* descriptor and over min(H, 540) x min(W, 720) for the ETH3D descriptor.
C7_SparsePointsDistinctInFrame ==
    (Accessed /\ out.err = "")
    => LET P == BatchPoints(out.batch)
           F == sample_frame(entity[1], raster_hw)
       IN /\ P.shape = <<Min(5000, F[1] * F[2]), 3>>
          /\ Len(P.rows) = Min(MaxPts, P.shape[1])
          /\ \A i \in DOMAIN P.rows :
                /\ 0 <= P.rows[i].u /\ P.rows[i].u < F[2]
                /\ 0 <= P.rows[i].v /\ P.rows[i].v < F[1]
          /\ \A i, j \in DOMAIN P.rows :
                i # j => <<P.rows[i].u, P.rows[i].v>> # <<P.rows[j].u, P.rows[j].v>>

C7_Witness ==
    /\ Accessed /\ out.err = "" /\ IsEth /\ raster_hw = <<2, 3>>
    /\ BatchPoints(out.batch).shape = <<6, 3>>
    /\ \E i \in DOMAIN BatchPoints(out.batch).rows :
          BatchPoints(out.batch).rows[i].v = 1

\* C10: get_item never changes the descriptor it is called on, and the
\* shift distance of a synthetic descriptor is an integer in 8..16.
C10_DescriptorNeverMutated ==
    /\ [](IsFlying => entity[1].shift_distance \in 8..16)
    /\ [][entity # <<>> => entity' = entity]_vars

C10_Witness ==
    /\ Accessed /\ IsFlying /\ out.err = ""
    /\ entity[1].shift_filter /\ entity[1].guided_noise # None
    /\ entity[1].rgb_gt # None /\ entity[1].shift_distance = 12

\* C12: reading a raster that already is 540 x 720 returns it as decoded,
\* and padding what a read or a pad returned changes nothing.
C12_PaddingIdempotent ==
    \A p \in fs : \A c \in BOOLEAN :
        LET raw == decode(raster_hw, p)
            x == read_img(raster_hw, p)
        IN /\ (raw.shape[1] = 540 /\ raw.shape[2] = 720) => x = raw
           /\ x.shape[1] = 540 /\ x.shape[2] = 720
           /\ img_pad_np(x, c) = x
           /\ img_pad_np(img_pad_np(raw, c), c) = img_pad_np(raw, c)

C12_Witness ==
    /\ Accessed /\ IsFlying /\ out.err = ""
    /\ raster_hw = <<2, 3>>
    /\ ~entity[1].shift_filter
    /\ out.batch[1].fx = <<"pad_edge">>
    /\ Height(out.batch[1]) = 540 /\ Width(out.batch[1]) = 720

\* the pixels of frame F the properties are evaluated on
FramePixels(F) ==
    {decompose(i, F[2]) : i \in IndexSamples(F[1] * F[2], F[2])}

\* C19: the ETH3D access sets the dense disparity to infinity at exactly the
\* pixels whose occlusion-mask value is below 200, leaves the other pixels
\* as decoded, and every sparse point carries the dense raster's value at
\* its coordinate, infinite where the pixel is occluded.
C19_OcclusionIsInfiniteUnfiltered ==
    (Accessed /\ IsEth /\ out.err = "")
    => LET Dense == BatchDisparity(out.batch)
           P == BatchPoints(out.batch)
       IN /\ \A px \in FramePixels(sample_frame(entity[1], raster_hw)) :
                LET val == pixel_at(Dense, px.v, px.u) IN
                /\ val.inf <=> mask_value(occ_mask, px.v, px.u) < 200
                /\ val.src = eth_join(entity[1].path, "disp0GT")
                /\ val.row = px.v /\ val.col = px.u /\ val.sub = 0
          /\ \A i \in DOMAIN P.rows :
                /\ P.rows[i].d = pixel_at(Dense, P.rows[i].v, P.rows[i].u)
                /\ P.rows[i].d.inf
                   <=> mask_value(occ_mask, P.rows[i].v, P.rows[i].u) < 200

C19_Witness ==
    /\ Accessed /\ IsEth /\ out.err = "" /\ occ_mask = "mixed"
    /\ \E i, j \in DOMAIN BatchPoints(out.batch).rows :
          /\ BatchPoints(out.batch).rows[i].d.inf
          /\ ~BatchPoints(out.batch).rows[j].d.inf
          /\ BatchPoints(out.batch).rows[j].v = 1

\* channel 0 of a C x H x W raster
Channel0(t) == [t EXCEPT !.shape[1] = 1, !.cat = <<>>]

\* C22: in what get_item returns for a synthetic descriptor, every sparse
\* row (u, v, d) carries the value that channel 0 of the returned dense
\* disparity raster, the left disparity, holds at row v, column u, with
\* shift_filter, vertical_scale and disparity_right set or not.
C22_SparseAgreesWithDense ==
    (Accessed /\ IsFlying /\ out.err = "")
    => LET Dense == BatchDisparity(out.batch)
           P == BatchPoints(out.batch)
       IN /\ Dense.shape[1] = IF entity[1].disparity_right THEN 2 ELSE 1
          /\ Dense.src = entity[1].disparity[1]
          /\ entity[1].disparity_right => Dense.cat = <<entity[1].disparity[2]>>
          /\ \A i \in DOMAIN P.rows :
                P.rows[i].d = pixel_at(Channel0(Dense), P.rows[i].v, P.rows[i].u)

C22_Witness ==
    /\ Accessed /\ IsFlying /\ out.err = ""
    /\ entity[1].shift_filter /\ entity[1].vertical_scale
    /\ entity[1].disparity_right
    /\ BatchDisparity(out.batch).shape[1] = 2
    /\ \E i \in DOMAIN BatchPoints(out.batch).rows :
          /\ BatchPoints(out.batch).rows[i].v = 1
          /\ BatchPoints(out.batch).rows[i].d.sub = entity[1].shift_distance
          /\ BatchPoints(out.batch).rows[i].d.fx = <<"vscale_disp">>

(***************************************************************************)
(* Construction of a StereoDataset from manifests (SpecLoader).            *)
(***************************************************************************)
\* the shapes of the records of a manifest, for record k
EntryShapes(k) ==
    {Entry(RecRgb(k), SubSeq(RecDisparity(k), 1, 1), NirAbsent, FALSE),
     Entry(RecRgb(k), RecDisparity(k), NirAbsent, FALSE),
     Entry(RecRgb(k), RecDisparity(k), NirList(RecNir(k)), FALSE),
     Entry(RecRgb(k), RecDisparity(k), NirAbsent, TRUE)}

\* the manifests of n records, record k at position k
RECURSIVE ManifestsOf(_)
ManifestsOf(n) ==
    IF n = 0 THEN {<<>>}
    ELSE {Append(m, e) : m \in ManifestsOf(n - 1), e \in EntryShapes(n)}

Manifests == (UNION {ManifestsOf(n) : n \in 1..MaxRecords})

\* the renderings of record k on disk: the color renderings 0..2 and the
\* NIR renderings 0..1, both sides
Renderings(k) ==
    LET e == Entry(RecRgb(k), RecDisparity(k), NirAbsent, FALSE) IN
    {render_path(e, "frame_shaded", i) : i \in 0..2}
    \cup {replace_side(render_path(e, "frame_shaded", i)) : i \in 0..2}
    \cup {render_path(e, "frame_shaded_nir", i) : i \in 0..1}
    \cup {replace_side(render_path(e, "frame_shaded_nir", i)) : i \in 0..1}

RecFiles(k) ==
    Range(RecRgb(k)) \cup Range(RecNir(k)) \cup Range(RecAmbient(k))
    \cup Range(RecDisparity(k))

\* the record of the flying manifest, past those of the driving manifest
FLYING_REC == MaxRecords + 2

LoaderDisk ==
    (UNION {RecFiles(k) : k \in 1..(MaxRecords + 1)})
    \cup Renderings(1) \cup RecFiles(FLYING_REC)

\* the defects of a disk: nothing, one file missing, one map undecodable
LoaderDefects ==
    {[missing |-> {}, bad |-> {}]}
    \cup {[missing |-> {p}, bad |-> {}] :
            p \in {RecRgb(1)[2], RecNir(1)[1], RecAmbient(1)[2], RecDisparity(1)[1],
                   RecDisparity(1)[2], RecNir(2)[2], RecDisparity(2)[1]}}
    \cup {[missing |-> {}, bad |-> {q}] : q \in {RecDisparity(1)[1]}}
    \cup {[missing |-> {p}, bad |-> {}] :
            p \in {Path(1, "frame_shaded", "right", 2, "png"),
                   Path(1, "frame_shaded_nir", "left", 1, "png")}}

\* the argument sets a StereoDataset is built with: the two of the training
\* script, validation runs, and a run with every expansion switched on
LoaderArgs ==
    {StereoDatasetArgs(FALSE, TRUE, FALSE, FALSE, FALSE, FALSE, FALSE, TRUE,
                       FALSE, TRUE, FALSE, FALSE, TRUE),
     StereoDatasetArgs(TRUE, FALSE, FALSE, FALSE, FALSE, FALSE, FALSE, TRUE,
                       TRUE, TRUE, FALSE, FALSE, TRUE),
     StereoDatasetArgs(TRUE, FALSE, FALSE, FALSE, FALSE, TRUE, FALSE, FALSE,
                       FALSE, FALSE, FALSE, FALSE, TRUE),
     StereoDatasetArgs(TRUE, TRUE, TRUE, TRUE, FALSE, TRUE, FALSE, FALSE,
                       FALSE, FALSE, FALSE, FALSE, TRUE),
     StereoDatasetArgs(TRUE, FALSE, FALSE, FALSE, TRUE, FALSE, TRUE, TRUE,
                       TRUE, TRUE, TRUE, TRUE, FALSE)}

LoaderSeeds == {0, 4, 8}

InitLoader ==
    /\ \E d \in LoaderDefects : fs = LoaderDisk \ d.missing /\ undecodable = d.bad
    /\ raster_hw = cut_resolution
    /\ occ_mask = "clear"
    /\ scan = NoScan
    /\ \E m \in Manifests :
          manifests = (DRIVING_JSON :> m
                       @@ FLYING_JSON :> <<Entry(RecRgb(FLYING_REC),
                                                 RecDisparity(FLYING_REC),
                                                 NirAbsent, FALSE)>>)
    /\ rnd \in LoaderSeeds
    /\ entity = <<>>
    /\ out = NoCall
    /\ input_list = <<>>
    /\ caller_list = <<>>
    /\ ds_kind = ""
    /\ shuffles = 0
    /\ stdout = <<>>

\* StereoDataset(args), args among argsets
BuildStereoDataset(argsets) ==
    /\ ds_kind = ""
    /\ \E args \in argsets :
       \E res \in {StereoDataset(args, manifests, fs, undecodable, rnd)} :
          /\ input_list' = res.input_list
          /\ manifests' = res.files
          /\ stdout' = stdout \o res.printed
          /\ shuffles' = res.shuffles
          /\ rnd' = res.rnd
          /\ out' = [op |-> "StereoDataset", err |-> "", batch |-> <<>>,
                     reads |-> <<>>, args |-> args, loaded |-> manifests,
                     returned |-> res.returned]
    /\ ds_kind' = "StereoDataset"
    /\ UNCHANGED <<occ_mask, scan, fs, undecodable, raster_hw, entity, caller_list>>

\* len(dataset)
LenCall ==
    /\ ds_kind # ""
    /\ out.op # "len"
    /\ out' = [op |-> "len", err |-> "", batch |-> <<>>, reads |-> <<>>,
               n |-> Len(input_list)]
    /\ UNCHANGED <<occ_mask, scan, fs, undecodable, raster_hw, manifests, rnd, entity, input_list,
                   caller_list, ds_kind, shuffles, stdout>>

NewStereoDataset == BuildStereoDataset(LoaderArgs)

NextLoader == NewStereoDataset \/ LenCall

SpecLoader == InitLoader /\ [][NextLoader]_vars

(***************************************************************************)
(* Properties of the manifest loader.                                      *)
(***************************************************************************)
Built == out.op = "StereoDataset"

\* whether the manifest called name was loaded by the construction
LoadedBy(name) ==
    IF name = DRIVING_JSON THEN out.args.flow3d_driving_json
    ELSE out.args.flying3d_json

\* the manifest called name was loaded in validation mode
ValidationLoad(name) == Built /\ LoadedBy(name) /\ out.args.validate_json

ManifestNames == {DRIVING_JSON, FLYING_JSON}

\* every path a manifest record references: the color pair, the NIR pair
\* (given, or derived from the color pair) and the disparity paths
Referenced(e) ==
    Range(e.rgb) \cup Range(entry_nir(e).v) \cup Range(e.disparity)

\* the records of the manifest as read that the loop did not skip
Processed(name) ==
    {i \in DOMAIN out.loaded[name] :
        ~(out.args.synth_no_filter /\ out.loaded[name][i].marker)}

\* the processed records that are not in the manifest file after the load
Dropped(name) ==
    {i \in Processed(name) :
        \A j \in DOMAIN manifests[name] :
            manifests[name][j].rgb # out.loaded[name][i].rgb}

\* the line validation printed for the manifest called name
PrintedFor(name) ==
    IF name = DRIVING_JSON THEN stdout[1] ELSE stdout[Len(stdout)]

\* C2: in validation mode a record is in the compacted manifest only if
\* every path it references (color pair, NIR pair given or derived, every
\* disparity path) exists and its disparity file decodes; every record with
\* a missing referenced path is dropped.
C2_ValidationKeepsOnlyExisting ==
    \A name \in ManifestNames :
        ValidationLoad(name) =>
            /\ \A j \in DOMAIN manifests[name] :
                  /\ Referenced(manifests[name][j]) \subseteq fs
                  /\ manifests[name][j].disparity[1] \notin undecodable
            /\ \A i \in Processed(name) :
                  ~(Referenced(out.loaded[name][i]) \subseteq fs)
                  => i \in Dropped(name)

\* C3: in validation mode the error count printed at the end is at least 1
\* whenever at least one record was dropped.
C3_ErrorCountReportsDrops ==
    \A name \in ManifestNames :
        (ValidationLoad(name) /\ Dropped(name) # {})
        => PrintedFor(name).n >= 1

KeptByValidation(e) ==
    /\ e.disparity[1] \in fs \ undecodable
    /\ e.nir.type = "absent" => Range(entry_nir(e).v) \subseteq fs

\* the manifest file validation writes for the records read
Compacted(name) ==
    LET kept == SelectSeq(out.loaded[name],
                          LAMBDA e : /\ ~(out.args.synth_no_filter /\ e.marker)
                                     /\ KeptByValidation(e))
    IN List([j \in DOMAIN kept |->
                Entry(kept[j].rgb, kept[j].disparity,
                      NirList(entry_nir(kept[j]).v), kept[j].marker)])

ReturnedFor(name) ==
    IF name = DRIVING_JSON THEN out.returned[1] ELSE out.returned[2]

\* the positions in the returned list of the descriptors built from record i
\* of the manifest called name
BuiltFrom(name, i) ==
    {k \in DOMAIN ReturnedFor(name) :
        ReturnedFor(name)[k].disparity = out.loaded[name][i].disparity}

\* those among them that are noised duplicates: the ones with a gamma factor
NoisedFrom(name, i) ==
    {k \in BuiltFrom(name, i) : ReturnedFor(name)[k].gamma_noise # None}

\* C13: with noised_input set the loader emits exactly 5 noised duplicates
\* per processed record, each with a guided-noise level in 0..19 and a
\* gamma factor in [0, 2); without it, none.
C13_FiveNoisedDuplicates ==
    Built =>
        \A name \in ManifestNames :
            LoadedBy(name) =>
                \A i \in Processed(name) :
                    /\ Cardinality(NoisedFrom(name, i))
                       = IF out.args.noised_input THEN 5 ELSE 0
                    /\ \A k \in NoisedFrom(name, i) :
                          LET d == ReturnedFor(name)[k] IN
                          /\ d.guided_noise # None
                          /\ d.guided_noise[1] \in 0..19
                          /\ 0 <= d.gamma_noise[1].num
                          /\ d.gamma_noise[1].num < 2 * d.gamma_noise[1].den

\* the i-th rendering of path p in directory pass, and its right side
RenderingOf(p, pass, i) == [p EXCEPT !.pass = pass, !.idx = i]
BothSidesExist(p) == p \in fs /\ [p EXCEPT !.side = "right"] \in fs

\* the highest index in 0..9 at which both sides of a rendering of record e
\* exist in directory pass, -1 when there is none
FoundIndex(e, pass) ==
    LET S == {i \in 0..9 : BothSidesExist(RenderingOf(e.rgb[1], pass, i))} IN
    IF S = {} THEN -1 ELSE CHOOSE i \in S : \A j \in S : j <= i

\* the image lists of the rendered variants the loader is to emit for
\* record e
RenderedImages(e) ==
    LET c == FoundIndex(e, "frame_shaded")
        n == FoundIndex(e, "frame_shaded_nir")
        color(i) == RenderingOf(e.rgb[1], "frame_shaded", i)
        nir(j) == RenderingOf(e.rgb[1], "frame_shaded_nir", j)
        right(p) == [p EXCEPT !.side = "right"]
        base == entry_nir(e).v
    IN IF ~out.args.rgb_rendered THEN {}
       ELSE IF out.args.use_rendered_nir
       THEN {<<color(i), right(color(i)), nir(j), right(nir(j))>> :
                i \in 0..(c - 1), j \in 0..(n - 1)}
       ELSE {<<color(i), right(color(i)), base[1], base[2]>> : i \in 0..(c - 1)}

\* the positions of the rendered variants of record i in the returned list
RenderedFrom(name, i) ==
    {k \in BuiltFrom(name, i) :
        ReturnedFor(name)[k].images[1].pass = "frame_shaded"}

\* C15: for every processed record the loader emits exactly one descriptor
\* per rendering pair (i, j) below the found indices (per i with the base
\* NIR pair when NIR renderings are not requested), none when no color
\* rendering is found, each with a guided-noise level exactly when
\* noised_input is set.
C15_RenderedVariants ==
    Built =>
        \A name \in ManifestNames :
            LoadedBy(name) =>
                \A i \in Processed(name) :
                    LET want == RenderedImages(out.loaded[name][i])
                        got == RenderedFrom(name, i)
                    IN /\ Cardinality(got) = Cardinality(want)
                       /\ {ReturnedFor(name)[k].images : k \in got} = want
                       /\ \A k \in got :
                             ReturnedFor(name)[k].guided_noise # None
                             <=> out.args.noised_input

C15_Witness ==
    /\ Built /\ LoadedBy(DRIVING_JSON)
    /\ out.args.rgb_rendered /\ out.args.use_rendered_nir
    /\ Cardinality(RenderedFrom(DRIVING_JSON, 1)) = 2
    /\ Len(out.loaded[DRIVING_JSON]) = 2
    /\ RenderedFrom(DRIVING_JSON, 2) = {}

\* C20: in validation mode the returned descriptor list holds no descriptor
\* built from a record that validation dropped.
C20_DroppedRecordContributesNothing ==
    \A name \in ManifestNames :
        ValidationLoad(name) =>
            \A i \in Dropped(name) : BuiltFrom(name, i) = {}

\* the records of the manifest as read that pass validation, in manifest
\* order, whether or not the loop reached them
PassingValidation(name) ==
    SelectSeq(out.loaded[name], LAMBDA e : KeptByValidation(e))

\* the color pairs of a list of records, in order
RgbOf(records) == List([j \in DOMAIN records |-> records[j].rgb])

\* C21: the compacted manifest validation writes holds, in manifest order,
\* every record of the manifest read that passes validation; none is lost
\* to the filtered-marker rule or to the early stop on the sample cap.
C21_CompactedKeepsEveryValidRecord ==
    \A name \in ManifestNames :
        ValidationLoad(name) =>
            RgbOf(manifests[name]) = RgbOf(PassingValidation(name))

(***************************************************************************)
(* The dataset collections (SpecDataset).                                  *)
(***************************************************************************)
MIDDLEBURY_COPIES == 100

\* random.sample without the exchange that takes a drawn element out of the pool
sample_step_keep_pool(pool, j, last) == pool

\* pool[j] = pool[n - i - 1], in 1-based positions
sample_step(pool, j, last) == [pool EXCEPT ![j] = pool[last]]

RECURSIVE sample_loop(_, _, _, _)
\* the loop of random.sample(population, k) over a pool: draw j below the
\* number of elements left, take pool[j], move the last element left into
\* its place
sample_loop(pool, left, result, r) ==
    IF left = 0 THEN [list |-> result, rnd |-> r]
    ELSE Only({sample_loop(sample_step(pool, j, left), left - 1,
                           Append(result, pool[j]), rnd_next(r))
               : j \in {(r % left) + 1}})

\* random.sample(population, len(population))
random_sample(population, r) ==
    sample_loop(population, Len(population), <<>>, r)

\* EntityDataSet.__init__(input_list): the collection's own list and the
\* list the caller passed
EntityDataSet(given, r) ==
    Only({[input_list |-> res.list, given |-> given, shuffles |-> 1,
           rnd |-> res.rnd]
          : res \in {random_sample(given, r)}})

\* EntityMiddlebury.__init__
EntityMiddlebury(disparity, left, right) ==
    [kind |-> "middlebury", disparity |-> disparity, left |-> left,
     right |-> right]

\* the disparity file of Middlebury scene k, scenes being numbered below 0
mb_disp(k) == Path(0 - k, "disp0", "left", -1, "pfm")

\* file.endswith("disp0.pfm")
endswith_disp0_pfm(p) == p.pass = "disp0" /\ p.ext = "pfm" /\ p.idx = -1

\* file.replace("disp0", name).replace("pfm", "png")
mb_image(p, name) ==
    LET q == replace_pass(p, "disp0", name) IN
    IF q.ext = "pfm" THEN [q EXCEPT !.ext = "png"] ELSE q

RECURSIVE mb_walk(_, _)
\* MiddleburyDataset.__init__: MIDDLEBURY_COPIES descriptors for every file
\* the walk meets whose name ends with disp0.pfm, in the order of the walk
mb_walk(files, acc) ==
    IF files = <<>> THEN acc
    ELSE LET file == Head(files) IN
         mb_walk(Tail(files),
                 IF endswith_disp0_pfm(file)
                 THEN acc \o List([i \in 1..MIDDLEBURY_COPIES |->
                                      EntityMiddlebury(file, mb_image(file, "im0"),
                                                       mb_image(file, "im1"))])
                 ELSE acc)

MiddleburyDataset(walk) ==
    [input_list |-> mb_walk(walk, <<>>), shuffles |-> 0]

RECURSIVE eth_frames(_, _, _)
\* the frames of the listing whose im0.png exists, in the order of the listing
eth_frames(listing, disk, acc) ==
    IF listing = <<>> THEN acc
    ELSE eth_frames(Tail(listing), disk,
                    IF eth_join(Head(listing), "im0") \in disk
                    THEN Append(acc, Ethe3dEntity(Head(listing))) ELSE acc)

\* Ethe3dStereo.__init__
Ethe3dStereo(listing, disk, r) ==
    Only({[input_list |-> res.list, shuffles |-> 1, rnd |-> res.rnd]
          : res \in {random_sample(eth_frames(listing, disk, <<>>), r)}})

\* the sequences that list the elements of set S once each
Orders(S) ==
    {q \in [1..Cardinality(S) -> S] :
        \A i, j \in 1..Cardinality(S) : i # j => q[i] # q[j]}

\* the descriptors a caller joins into a collection
CallerDescriptors ==
    {Ethe3dEntity(1),
     EntityFlying3d(RecRgb(1) \o RecAmbient(1), RecDisparity(1), None, None,
                    TRUE, FALSE, "rgb", FALSE, None, 0)}

CallerLists ==
    (UNION {[1..n -> CallerDescriptors] : n \in 0..(MaxRecords + 1)})

MbScenes == 1..2
EthFrames == 1..2

DatasetDisk ==
    LoaderDisk \cup EthFiles(1) \cup EthFiles(2)
    \cup {mb_disp(k) : k \in MbScenes}
    \cup {mb_image(mb_disp(k), "im0") : k \in MbScenes}
    \cup {mb_image(mb_disp(k), "im1") : k \in MbScenes}

InitDataset ==
    /\ \E missing \in {{}, {eth_join(2, "im0"), mb_disp(2)}} :
          fs = DatasetDisk \ missing
    /\ undecodable = {}
    /\ raster_hw = cut_resolution
    /\ occ_mask = "mixed"
    /\ scan = NoScan
    /\ manifests = (DRIVING_JSON :> <<Entry(RecRgb(1), RecDisparity(1),
                                            NirAbsent, FALSE),
                                      Entry(RecRgb(2), RecDisparity(2),
                                            NirAbsent, FALSE)>>
                    @@ FLYING_JSON :> <<Entry(RecRgb(FLYING_REC),
                                              RecDisparity(FLYING_REC),
                                              NirAbsent, FALSE)>>)
    /\ rnd \in LoaderSeeds
    /\ entity = <<>>
    /\ out = NoCall
    /\ input_list = <<>>
    /\ caller_list \in CallerLists
    /\ ds_kind = ""
    /\ shuffles = 0
    /\ stdout = <<>>

\* EntityDataSet(caller_list)
NewEntityDataSet ==
    /\ ds_kind = ""
    /\ \E res \in {EntityDataSet(List(caller_list), rnd)} :
          /\ input_list' = res.input_list
          /\ caller_list' = res.given
          /\ shuffles' = res.shuffles
          /\ rnd' = res.rnd
    /\ ds_kind' = "EntityDataSet"
    /\ out' = [op |-> "EntityDataSet", err |-> "", batch |-> <<>>,
               reads |-> <<>>, given |-> List(caller_list)]
    /\ UNCHANGED <<occ_mask, scan, fs, undecodable, raster_hw, manifests, entity, stdout>>

\* the files of the scene directories in the order os.walk visits them
RECURSIVE mb_listing(_, _)
mb_listing(scenes, disk) ==
    IF scenes = <<>> THEN <<>>
    ELSE LET d == mb_disp(Head(scenes)) IN
         SelectSeq(<<mb_image(d, "im0"), mb_image(d, "im1"), d>>,
                   LAMBDA p : p \in disk)
         \o mb_listing(Tail(scenes), disk)

\* the two StereoDataset arguments of the training script
TrainingArgs ==
    {StereoDatasetArgs(FALSE, TRUE, FALSE, FALSE, FALSE, FALSE, FALSE, TRUE,
                       FALSE, TRUE, FALSE, FALSE, TRUE),
     StereoDatasetArgs(TRUE, FALSE, FALSE, FALSE, FALSE, FALSE, FALSE, TRUE,
                       TRUE, TRUE, FALSE, FALSE, TRUE)}

NewTrainingDataset == BuildStereoDataset(TrainingArgs)

\* MiddleburyDataset(), os.walk visiting the scene directories in some order
NewMiddleburyDataset ==
    /\ ds_kind = ""
    /\ \E scenes \in Orders(MbScenes) :
       \E res \in {MiddleburyDataset(mb_listing(List(scenes), fs))} :
          /\ input_list' = res.input_list
          /\ shuffles' = res.shuffles
    /\ ds_kind' = "MiddleburyDataset"
    /\ out' = [op |-> "MiddleburyDataset", err |-> "", batch |-> <<>>,
               reads |-> <<>>]
    /\ UNCHANGED <<occ_mask, scan, fs, undecodable, raster_hw, manifests, rnd, entity,
                   caller_list, stdout>>

\* Ethe3dStereo(), os.listdir giving the frames in some order
NewEthe3dStereo ==
    /\ ds_kind = ""
    /\ \E listing \in Orders(EthFrames) :
       \E res \in {Ethe3dStereo(List(listing), fs, rnd)} :
          /\ input_list' = res.input_list
          /\ shuffles' = res.shuffles
          /\ rnd' = res.rnd
    /\ ds_kind' = "Ethe3dStereo"
    /\ out' = [op |-> "Ethe3dStereo", err |-> "", batch |-> <<>>,
               reads |-> <<>>]
    /\ UNCHANGED <<occ_mask, scan, fs, undecodable, raster_hw, manifests, entity, caller_list,
                   stdout>>

\* dataset[index] on a collection of synthetic and ETH3D descriptors:
\* self.input_list[index].get_item()
GetItemAt ==
    /\ ds_kind \in {"EntityDataSet", "StereoDataset", "Ethe3dStereo"}
    /\ \E index \in 0..(Len(input_list) - 1) :
       LET e == input_list[index + 1]
           F == sample_frame(e, raster_hw)
       IN \E perm \in randperm_prefix(F[1] * F[2], F[2]) :
          \E res \in {produce(e, fs, undecodable, raster_hw, occ_mask, rnd, perm, FALSE)} :
             /\ out' = [op |-> "getitem", err |-> res.err, batch |-> res.batch,
                        reads |-> res.reads, index |-> index, self |-> e]
             /\ rnd' = res.rnd
             /\ input_list' = List([i \in DOMAIN input_list |->
                                       IF i = index + 1 THEN res.self
                                       ELSE input_list[i]])
    /\ UNCHANGED <<occ_mask, scan, fs, undecodable, raster_hw, manifests, entity, caller_list,
                   ds_kind, shuffles, stdout>>

NextDataset ==
    \/ NewEntityDataSet
    \/ NewTrainingDataset
    \/ NewMiddleburyDataset
    \/ NewEthe3dStereo
    \/ GetItemAt
    \/ LenCall

SpecDataset == InitDataset /\ [][NextDataset]_vars


(***************************************************************************)
(* Properties of the dataset collections.                                  *)
(***************************************************************************)
IsEntityDataSet == ds_kind = "EntityDataSet"

\* the two lists hold the same descriptors the same number of times
SameMultiset(a, b) ==
    /\ Len(a) = Len(b)
    /\ \A x \in Range(a) \cup Range(b) :
          Cardinality({i \in DOMAIN a : a[i] = x})
          = Cardinality({i \in DOMAIN b : b[i] = x})

\* C8: every dataset collection (EntityDataSet, StereoDataset,
\* MiddleburyDataset, Ethe3dStereo) performs exactly one random permutation
\* of its descriptor collection at construction.
C8_EveryCollectionShufflesOnce == ds_kind # "" => shuffles = 1

\* C9: an EntityDataSet holds the multiset of descriptors it was given, its
\* length is the number of descriptors given, the caller's list is never
\* modified, and after construction no length or get call changes the
\* order: get(i) runs on the descriptor that stays at position i.
C9_EntityDataSetKeepsDescriptors ==
    /\ [](IsEntityDataSet =>
            /\ SameMultiset(input_list, caller_list)
            /\ out.op = "len" => out.n = Len(caller_list)
            /\ out.op = "getitem" => out.self = input_list[out.index + 1])
    /\ [][caller_list' = caller_list]_vars
    /\ [][ds_kind # "" => input_list' = input_list]_vars

C9_Witness ==
    /\ IsEntityDataSet
    /\ out.op = "getitem" /\ out.err = "" /\ out.index = 2
    /\ Len(input_list) = 3
    /\ input_list # caller_list


(***************************************************************************)
(* Access to one Middlebury descriptor (SpecMiddlebury).                   *)
(***************************************************************************)
MbFiles(k) ==
    {mb_disp(k), mb_image(mb_disp(k), "im0"), mb_image(mb_disp(k), "im1")}

\* the sizes of the Middlebury frames on disk
MbFrameSizes == {<<2000, 3000>>, <<1000, 1400>>, <<600, 900>>}

InitMiddlebury ==
    /\ \E missing \in {{}, {mb_image(mb_disp(1), "im1")}, {mb_disp(1)}} :
          fs = MbFiles(1) \ missing
    /\ undecodable = {}
    /\ raster_hw \in MbFrameSizes
    /\ occ_mask = "clear"
    /\ scan = NoScan
    /\ manifests = <<>>
    /\ rnd \in RndStates
    /\ entity = <<>>
    /\ out = NoCall
    /\ input_list = <<>>
    /\ caller_list = <<>>
    /\ ds_kind = ""
    /\ shuffles = 0
    /\ stdout = <<>>

\* EntityMiddlebury(disparity, left, right), as MiddleburyDataset builds it
NewEntityMiddlebury ==
    /\ entity = <<>>
    /\ entity' = <<EntityMiddlebury(mb_disp(1), mb_image(mb_disp(1), "im0"),
                                    mb_image(mb_disp(1), "im1"))>>
    /\ UNCHANGED <<occ_mask, scan, fs, undecodable, raster_hw, manifests, rnd, out,
                   input_list, caller_list, ds_kind, shuffles, stdout>>

\* entity.get_item(); seed records the generator's state the call started from
GetItemMiddlebury ==
    /\ entity # <<>>
    /\ \E res \in {mb_get_item(entity[1], fs, undecodable, raster_hw, rnd)} :
          /\ out' = [op |-> "get_item", err |-> res.err, batch |-> res.batch,
                     reads |-> res.reads, seed |-> rnd]
          /\ rnd' = res.rnd
          /\ entity' = <<res.self>>
    /\ UNCHANGED <<occ_mask, scan, fs, undecodable, raster_hw, manifests,
                   input_list, caller_list, ds_kind, shuffles, stdout>>

NextMiddlebury == NewEntityMiddlebury \/ GetItemMiddlebury

SpecMiddlebury == InitMiddlebury /\ [][NextMiddlebury]_vars

(***************************************************************************)
(* Properties of the Middlebury access.                                    *)
(***************************************************************************)
Returned == Accessed /\ out.err = ""

\* the draws of the access that returned, from the state it started from
DrawnX == randint(out.seed, 0, 800)
DrawnY == randint(rnd_next(out.seed), 0, 200)
DrawnBranch == randint(rnd_skip(out.seed, 2), 1, 100)

GammaCorrected(t) == "gamma" \in Range(t.fx)
Darkened(t) == "clip" \in Range(t.fx) \/ t.sub # 0

\* raster t is the window at (DrawnY, DrawnX) of file p, not augmented
PlainWindow(t, p) ==
    /\ t.src = p /\ t.xoff = DrawnX /\ t.yoff = DrawnY
    /\ ~GammaCorrected(t) /\ ~Darkened(t)

\* C11: the access-time randomness comes only from a source handed to the
\* call: get_item takes none, so two calls on the same descriptor return
\* the same result whatever was drawn before them.
C11_ResultIndependentOfEarlierDraws ==
    [][(Returned /\ entity' = entity /\ out'.op = "get_item" /\ out'.err = "")
       => out'.batch = out.batch]_vars

\* C16: one draw in 1..100 selects exactly one augmentation: above 70 the
\* color pair is gamma-corrected, from 21 to 70 the color pair is darkened,
\* up to 20 the derived-NIR pair is gamma-corrected; nothing else is
\* augmented, and elements 4 and 5 are the cropped color pair as read.
C16_ExactlyOneAugmentation ==
    Returned =>
        LET b == out.batch
            n == DrawnBranch
        IN /\ Len(b) = 8
           /\ \A i \in {1, 2} :
                 /\ GammaCorrected(b[i]) <=> n > 70
                 /\ Darkened(b[i]) <=> (21 <= n /\ n <= 70)
           /\ \A i \in {3, 4} :
                 /\ GammaCorrected(b[i]) <=> n <= 20
                 /\ ~Darkened(b[i])
           /\ PlainWindow(b[5], entity[1].left)
           /\ PlainWindow(b[6], entity[1].right)
           /\ ~GammaCorrected(b[7]) /\ ~Darkened(b[7]) /\ b[8] = b[7]

C16_Witness ==
    /\ Returned /\ DrawnBranch > 70
    /\ GammaCorrected(out.batch[1]) /\ ~GammaCorrected(out.batch[5])
    /\ raster_hw = <<2000, 3000>>

\* C17: in the darkening branch one offset in 64..224 is subtracted from
\* both color images.
C17_SameOffsetBothSides ==
    (Returned /\ 21 <= DrawnBranch /\ DrawnBranch <= 70)
    => /\ out.batch[1].sub \in 64..224
       /\ out.batch[2].sub = out.batch[1].sub

\* C18: whatever the size H x W of the source frame and the drawn offset
\* (x, y), x + 720 <= W and y + 540 <= H: the window is 540 x 720 source
\* pixels and nothing of it is padding.
C18_CropWithinFrame ==
    Returned =>
        /\ DrawnX + 720 <= raster_hw[2]
        /\ DrawnY + 540 <= raster_hw[1]
        /\ \A i \in 5..7 : "pad_edge" \notin Range(out.batch[i].fx)
                           /\ "pad_constant" \notin Range(out.batch[i].fx)


(***************************************************************************)
(* The loader's loop over a long manifest (SpecScan): one step per record, *)
(* the descriptors kept as their number.  Every record expands to the same *)
(* number `per` of descriptors; the records whose index is a multiple of 3 *)
(* carry the frame_burnt_filtered marker.                                  *)
(***************************************************************************)
ScanRecordCounts == {1400, 1600}
ScanPerRecord == {1, 14, 70}

scan_marked(idx) == idx % 3 = 0

InitScan ==
    /\ fs = LoaderDisk
    /\ undecodable = {}
    /\ raster_hw = cut_resolution
    /\ occ_mask = "clear"
    /\ manifests = <<>>
    /\ rnd = 0
    /\ entity = <<>>
    /\ out = NoCall
    /\ input_list = <<>>
    /\ caller_list = <<>>
    /\ ds_kind = ""
    /\ shuffles = 0
    /\ stdout = <<>>
    /\ \E n \in ScanRecordCounts, per \in ScanPerRecord,
          fast_test \in BOOLEAN, synth_no_filter \in BOOLEAN :
          scan = [args |-> [fast_test |-> fast_test,
                            synth_no_filter |-> synth_no_filter],
                  records |-> n, per |-> per,
                  idx |-> 0, n_entries |-> 0, expanded |-> 0, at |-> "loop"]

\* lines 396-405 and the appends of 416-522: one iteration of the loop
ScanRecord ==
    /\ scan # NoScan /\ scan.at = "loop" /\ scan.idx < scan.records
    /\ scan' =
         IF scan.args.synth_no_filter /\ scan_marked(scan.idx)
         THEN [scan EXCEPT !.idx = scan.idx + 1]
         ELSE IF cap_reached(scan.args, scan.n_entries, scan.idx)
         THEN [scan EXCEPT !.at = "break"]
         ELSE [scan EXCEPT !.idx = scan.idx + 1,
                           !.n_entries = scan.n_entries + scan.per,
                           !.expanded = scan.expanded + 1]
    /\ UNCHANGED <<occ_mask, fs, undecodable, raster_hw, manifests, rnd, entity,
                   out, input_list, caller_list, ds_kind, shuffles, stdout>>

\* the loop runs out of records
ScanEnd ==
    /\ scan # NoScan /\ scan.at = "loop" /\ scan.idx = scan.records
    /\ scan' = [scan EXCEPT !.at = "end"]
    /\ UNCHANGED <<occ_mask, fs, undecodable, raster_hw, manifests, rnd, entity,
                   out, input_list, caller_list, ds_kind, shuffles, stdout>>

NextScan == ScanRecord \/ ScanEnd

SpecScan == InitScan /\ [][NextScan]_vars

\* the records of the manifest that the filtered-marker rule does not skip
ScanUnskipped ==
    {i \in 0..(scan.records - 1) :
        ~(scan.args.synth_no_filter /\ scan_marked(i))}

\* C14: without fast_test the loop never stops on the number of descriptors
\* accumulated: every record that the filtered-marker rule does not skip is
\* expanded.
C14_CapOnlyInFastTest ==
    (scan # NoScan /\ scan.at # "loop" /\ ~scan.args.fast_test)
    => /\ scan.at = "end"
       /\ scan.expanded = Cardinality(ScanUnskipped)


====
